---- MODULE Spec2Model ----
(***************************************************************************)
(* A model of scripts/decision_makers_finder.py: DecisionMakersFinder.run  *)
(* partitions the input rows into chunks, process_batch runs one           *)
(* process_company coroutine per row of a chunk concurrently, and every    *)
(* process_company issues five search calls, formats their results, asks   *)
(* the language model to extract contacts and normalises them.             *)
(*                                                                         *)
(* Text.  A Python str is a sequence of tokens (TLA+ strings); a token is  *)
(* a piece of text that the program never looks inside.  "x in s",         *)
(* s.strip() and s.split(d) work on whole tokens.  The markdown fence of   *)
(* three backquotes is the token "FENCE".  A reply of the language model   *)
(* is a sequence of reply tokens: Tok(c) is plain text and JsonText(v) is  *)
(* a maximal well-formed JSON text that json.loads parses to v.  The JSON  *)
(* text of a value with a fence inside one of its strings is three tokens: *)
(* JsonHead(v), the fence, JsonTail(v); neither part alone is JSON.        *)
(*                                                                         *)
(* JSON values are tagged records (JStr, JNum, JNull, JArr, JObj); a dict  *)
(* is a function from its keys to values.                                  *)
(***************************************************************************)
EXTENDS Integers, Sequences, FiniteSets, TLC

VARIABLES
    df,           \* the input rows (a sequence of dicts "Domain", "Company Name")
    batch_size,   \* self.batch_size
    serper,       \* per query position: the responses the search provider may give
    llm,          \* the responses the language-model provider may give
    fifo,         \* TRUE: network responses arrive in the order the calls were issued
    pc,           \* where run is: "loop", "gather", "done", "raised"
    i,            \* run's loop variable: offset of the current chunk
    batch,        \* the rows (as indices into df) of the chunk process_batch works on
    session,      \* [n: sessions created so far, open: the latest one is open]
    task,         \* per row: the process_company coroutine of that row
    all_results,  \* run's accumulator
    chunks        \* history: the chunks run has issued, each a sequence of row indices

vars == <<df, batch_size, serper, llm, fifo, pc, i, batch, session, task,
          all_results, chunks>>

(***************************************************************************)
(* Bounds of the model.                                                    *)
(***************************************************************************)
MaxCompanies == 3
BatchSize == 2
MaxRows == 29
MaxUrlLen == 4
MaxHits == 5
MaxQueryRows == 2

(***************************************************************************)
(* Text helpers.                                                           *)
(***************************************************************************)
Min(a, b) == IF a < b THEN a ELSE b

\* p occurs in s at position k
OccursAt(s, p, k) ==
    /\ k >= 1
    /\ k + Len(p) - 1 <= Len(s)
    /\ \A j \in 1..Len(p) : s[k + j - 1] = p[j]

\* Python's "p in s" for a non-empty p
Contains(s, p) == \E k \in 1..Len(s) : OccursAt(s, p, k)

\* Python's s.find(p), 1-based; 0 when p does not occur
Find(s, p) ==
    IF Contains(s, p)
    THEN CHOOSE k \in 1..Len(s) :
            OccursAt(s, p, k) /\ \A m \in 1..(k - 1) : ~OccursAt(s, p, m)
    ELSE 0

IsSpace(tok) == tok \in {" ", "\n", "\t", "\r"}

RECURSIVE LStrip(_)
LStrip(s) == IF s # <<>> /\ IsSpace(Head(s)) THEN LStrip(Tail(s)) ELSE s

RECURSIVE RStrip(_)
RStrip(s) ==
    IF s # <<>> /\ IsSpace(s[Len(s)]) THEN RStrip(SubSeq(s, 1, Len(s) - 1)) ELSE s

\* str.strip()
Strip(s) == RStrip(LStrip(s))

RECURSIVE Concat(_)
Concat(ss) == IF ss = <<>> THEN <<>> ELSE Head(ss) \o Concat(Tail(ss))

\* sep.join(parts)
RECURSIVE Join(_, _)
Join(sep, parts) ==
    IF parts = <<>> THEN <<>>
    ELSE IF Len(parts) = 1 THEN parts[1]
    ELSE parts[1] \o sep \o Join(sep, Tail(parts))

(***************************************************************************)
(* JSON values.                                                            *)
(***************************************************************************)
JStr(s) == [t |-> "str", s |-> s]
JNum(n) == [t |-> "num", n |-> n]
JNull == [t |-> "null"]
JArr(a) == [t |-> "arr", a |-> a]
JObj(o) == [t |-> "obj", o |-> o]

EmptyDict == JObj(<<>>)

\* d.get(k, default) on a dict
Get(d, k, default) == IF k \in DOMAIN d.o THEN d.o[k] ELSE default

\* d[k] = v on a dict
SetItem(d, k, v) ==
    JObj([x \in (DOMAIN d.o) \cup {k} |-> IF x = k THEN v ELSE d.o[x]])

\* Python truthiness of a JSON value
Truthy(v) ==
    CASE v.t = "str" -> v.s # <<>>
      [] v.t = "num" -> v.n # 0
      [] v.t = "null" -> FALSE
      [] v.t = "arr" -> v.a # <<>>
      [] v.t = "obj" -> DOMAIN v.o # {}

\* str(v) as an f-string renders it
PyStr(v) ==
    CASE v.t = "str" -> v.s
      [] v.t = "num" -> <<"<number>">>
      [] v.t = "null" -> <<"None">>
      [] v.t = "arr" -> <<"<list>">>
      [] v.t = "obj" -> <<"<dict>">>

(***************************************************************************)
(* What a call returns to its awaiter: a value, or an exception.           *)
(***************************************************************************)
Return(v) == [raised |-> FALSE, value |-> v]
Raise == [raised |-> TRUE]

(***************************************************************************)
(* __init__: the query templates.  "{domain}" and "{company_name}" are the *)
(* replacement fields of str.format.                                       *)
(***************************************************************************)
search_queries ==
    << <<"{domain}", " ", "{company_name}", " CEO -zoominfo -dnb">>,
       <<"{domain}", " ", "{company_name}", " Founder owner -zoominfo -dnb">>,
       <<"{domain}", " ", "{company_name}", " president chairman -zoominfo -dnb">>,
       <<"{domain}", " ", "{company_name}", " partner -zoominfo -dnb">>,
       <<"{domain}", " ", "{company_name}", " contact email">> >>

QueryIds == 1..Len(search_queries)

\* a format that replaces one field after the other in the text
format_sequential(q, domain, company_name) ==
    LET s1 == Concat([k \in 1..Len(q) |-> IF q[k] = "{domain}" THEN domain ELSE <<q[k]>>])
    IN  Concat([k \in 1..Len(s1) |->
                  IF s1[k] = "{company_name}" THEN company_name ELSE <<s1[k]>>])

\* q.format(domain=domain, company_name=company_name)
format(q, domain, company_name) ==
    Concat([k \in 1..Len(q) |->
              IF q[k] = "{domain}" THEN domain
              ELSE IF q[k] = "{company_name}" THEN company_name
              ELSE <<q[k]>>])

\* process_company: queries = [q.format(...) for q in self.search_queries]
queries_of(domain, company_name) ==
    [k \in QueryIds |-> format(search_queries[k], domain, company_name)]

(***************************************************************************)
(* search_serper.  An HTTP response is [exc, status, body]: exc says that  *)
(* session.post raised; body is the JSON value of the response body, or    *)
(* NotJson when response.json() raises.                                    *)
(***************************************************************************)
NotJson == [t |-> "notjson"]

HttpError == [exc |-> TRUE, status |-> 0, body |-> NotJson]
Http(status, body) == [exc |-> FALSE, status |-> status, body |-> body]

\* a fallback result that does not keep the query
empty_result_no_query(query) == JObj([organic |-> JArr(<<>>)])

\* {"organic": [], "searchParameters": {"q": query}}
empty_result(query) ==
    JObj([organic |-> JArr(<<>>), searchParameters |-> JObj([q |-> JStr(query)])])

\* a search_serper without its try/except: a transport error propagates
search_serper_unguarded(query, response) ==
    IF response.exc THEN Raise
    ELSE IF response.status = 200 /\ response.body # NotJson
         THEN Return(response.body)
         ELSE Return(empty_result(query))

search_serper(query, response) ==
    IF response.exc THEN Return(empty_result(query))
    ELSE IF response.status = 200
         THEN IF response.body = NotJson
              THEN Return(empty_result(query))
              ELSE Return(response.body)
         ELSE Return(empty_result(query))

(***************************************************************************)
(* _validate_linkedin_url                                                  *)
(***************************************************************************)
profile_path == <<"linkedin.com/", "in/">>

disallowed ==
    { <<"linkedin.com/", "company/">>, <<"linkedin.com/", "posts/">>,
      <<"linkedin.com/", "pub/dir/">>, <<"linkedin.com/", "feed/">>,
      <<"linkedin.com/", "jobs/">>, <<"linkedin.com/", "school/">> }

\* a validator without the check of the disallowed paths
validate_linkedin_url_profile_only(url) ==
    IF ~Truthy(url) \/ url.t # "str" THEN JStr(<<>>)
    ELSE IF ~Contains(Strip(url.s), profile_path) THEN JStr(<<>>)
    ELSE JStr(Strip(url.s))

validate_linkedin_url(url) ==
    IF ~Truthy(url) \/ url.t # "str" THEN JStr(<<>>)
    ELSE LET u == Strip(url.s) IN
         IF ~Contains(u, profile_path) THEN JStr(<<>>)
         ELSE IF \E d \in disallowed : Contains(u, d) THEN JStr(<<>>)
         ELSE JStr(u)

(***************************************************************************)
(* format_search_results                                                   *)
(***************************************************************************)
TopHits == 4

result_separator == <<"\n---\n">>

Range(f) == {f[x] : x \in DOMAIN f}

\* "k in item"
HasKey(item, k) ==
    CASE item.t = "obj" -> k \in DOMAIN item.o
      [] item.t = "arr" -> JStr(<<k>>) \in Range(item.a)
      [] item.t = "str" -> Contains(item.s, <<k>>)
      [] OTHER -> FALSE

HasAllKeys(item) ==
    HasKey(item, "title") /\ HasKey(item, "link") /\ HasKey(item, "snippet")

\* the loop body raises TypeError: "in" on a value that is no container, or
\* item['title'] on a list or a str
ItemRaises(item) ==
    \/ item.t \in {"num", "null"}
    \/ item.t \in {"arr", "str"} /\ HasAllKeys(item)

\* a selection that takes the first 4 of the hits that have all their fields
first_hits_of_complete(organic) ==
    IF organic.t = "arr"
    THEN SubSeq(SelectSeq(organic.a, HasAllKeys), 1,
                Min(TopHits, Len(SelectSeq(organic.a, HasAllKeys))))
    ELSE <<>>

\* organic_results[:4]; slicing a str gives characters, none of which holds a key
first_hits(organic) ==
    IF organic.t = "arr" THEN SubSeq(organic.a, 1, Min(TopHits, Len(organic.a)))
    ELSE <<>>

RenderHit(item) ==
    <<"- ">> \o PyStr(item.o["title"]) \o <<"\n  ">> \o PyStr(item.o["link"])
        \o <<"\n  ">> \o PyStr(item.o["snippet"])

RECURSIVE formatted_results(_)
formatted_results(items) ==
    IF items = <<>> THEN <<>>
    ELSE IF HasAllKeys(Head(items))
         THEN <<RenderHit(Head(items))>> \o formatted_results(Tail(items))
         ELSE formatted_results(Tail(items))

\* what result.get('searchParameters', {}).get('q', ...) and
\* result.get('organic', []) raise: .get on a non-dict, a slice of a non-sequence
SectionRaises(result) ==
    \/ result.t # "obj"
    \/ Get(result, "searchParameters", EmptyDict).t # "obj"
    \/ Get(result, "organic", JArr(<<>>)).t \notin {"arr", "str"}
    \/ \E k \in DOMAIN first_hits(Get(result, "organic", JArr(<<>>))) :
          ItemRaises(first_hits(Get(result, "organic", JArr(<<>>)))[k])

section_query(result) ==
    Get(Get(result, "searchParameters", EmptyDict), "q", JStr(<<"(No query found)">>))

section(result) ==
    <<"**Search Query:** ">> \o PyStr(section_query(result)) \o <<"\n\n">>
        \o Join(result_separator,
                formatted_results(first_hits(Get(result, "organic", JArr(<<>>)))))

format_search_results(results) ==
    IF \E k \in DOMAIN results : SectionRaises(results[k]) THEN Raise
    ELSE Return(Join(<<"\n\n\n">>, [k \in DOMAIN results |-> section(results[k])]))

(***************************************************************************)
(* extract_all_contacts.  The provider's response is [exc, status, data];  *)
(* data is NoChoices when data['choices'][0]['message']['content'] raises  *)
(* (or the body is no JSON), else the content: JNull or Text(reply).       *)
(***************************************************************************)
Tok(c) == [c |-> c]
JsonText(v) == [j |-> v]
JsonHead(v) == [head |-> v]
JsonTail(v) == [tail |-> v]
Text(toks) == [t |-> "text", toks |-> toks]

NoChoices == [t |-> "nochoices"]

LlmError == [exc |-> TRUE, status |-> 0, data |-> NoChoices]
Llm(status, data) == [exc |-> FALSE, status |-> status, data |-> data]

fence_json == <<Tok("FENCE"), Tok("json")>>
fence == <<Tok("FENCE")>>

IsSpaceTok(tk) == "c" \in DOMAIN tk /\ IsSpace(tk.c)

RECURSIVE LStripText(_)
LStripText(s) == IF s # <<>> /\ IsSpaceTok(Head(s)) THEN LStripText(Tail(s)) ELSE s

RECURSIVE RStripText(_)
RStripText(s) ==
    IF s # <<>> /\ IsSpaceTok(s[Len(s)])
    THEN RStripText(SubSeq(s, 1, Len(s) - 1))
    ELSE s

\* str.strip() on a reply
StripText(s) == RStripText(LStripText(s))

\* s.split(d)[0]
split0(s, d) == IF Contains(s, d) THEN SubSeq(s, 1, Find(s, d) - 1) ELSE s

\* s.split(d)[1], for a d that occurs in s
split1(s, d) == split0(SubSeq(s, Find(s, d) + Len(d), Len(s)), d)

\* "Remove markdown code blocks if present"
strip_fence(content) ==
    IF Contains(content, fence_json)
    THEN StripText(split0(split1(content, fence_json), fence))
    ELSE IF Contains(content, fence)
         THEN StripText(split0(split1(content, fence), fence))
         ELSE content

\* json.loads: one JSON text, white space around it allowed; else JSONDecodeError
json_loads(content) ==
    LET s == StripText(content) IN
    IF Len(s) = 1 /\ "j" \in DOMAIN s[1] THEN Return(s[1].j)
    ELSE IF /\ Len(s) = 3
            /\ "head" \in DOMAIN s[1]
            /\ s[2] = Tok("FENCE")
            /\ "tail" \in DOMAIN s[3]
            /\ s[1].head = s[3].tail
         THEN Return(s[1].head)
         ELSE Raise

\* an extract_all_contacts without its outer try/except: only JSONDecodeError
\* is caught
extract_all_contacts_unguarded(response) ==
    IF response.exc THEN Raise
    ELSE IF response.status # 200 THEN Return(<<>>)
    ELSE IF response.data.t # "text" THEN Raise
    ELSE LET parsed == json_loads(strip_fence(response.data.toks)) IN
         IF parsed.raised THEN Return(<<>>)
         ELSE IF parsed.value.t = "arr" THEN Return(parsed.value.a)
         ELSE Return(<<>>)

\* what extract_all_contacts gives its awaiter
extract_all_contacts(response) ==
    IF response.exc THEN Return(<<>>)
    ELSE IF response.status # 200 THEN Return(<<>>)
    ELSE IF response.data.t # "text" THEN Return(<<>>)
    ELSE LET parsed == json_loads(strip_fence(response.data.toks)) IN
         IF parsed.raised THEN Return(<<>>)
         ELSE IF parsed.value.t = "arr" THEN Return(parsed.value.a)
         ELSE Return(<<>>)

(***************************************************************************)
(* process_company: the loop over all_contacts                             *)
(***************************************************************************)
\* a normalisation that resets generic_email in every record
normalize_contact_reset_email(contact, domain, company_name) ==
    LET c1 == SetItem(contact, "domain", JStr(domain))
        c2 == SetItem(c1, "company_name", JStr(company_name))
        c3 == SetItem(c2, "linkedin_url",
                      validate_linkedin_url(Get(c2, "linkedin_url", JStr(<<>>))))
    IN  SetItem(c3, "generic_email", JStr(<<>>))

\* a normalisation that keeps a domain or company_name the record already has
normalize_contact_setdefault(contact, domain, company_name) ==
    LET c1 == IF "domain" \in DOMAIN contact.o THEN contact
              ELSE SetItem(contact, "domain", JStr(domain))
        c2 == IF "company_name" \in DOMAIN c1.o THEN c1
              ELSE SetItem(c1, "company_name", JStr(company_name))
        c3 == SetItem(c2, "linkedin_url",
                      validate_linkedin_url(Get(c2, "linkedin_url", JStr(<<>>))))
    IN  IF "generic_email" \notin DOMAIN c3.o
        THEN SetItem(c3, "generic_email", JStr(<<>>))
        ELSE c3

normalize_contact(contact, domain, company_name) ==
    LET c1 == SetItem(contact, "domain", JStr(domain))
        c2 == SetItem(c1, "company_name", JStr(company_name))
        c3 == SetItem(c2, "linkedin_url",
                      validate_linkedin_url(Get(c2, "linkedin_url", JStr(<<>>))))
    IN  IF "generic_email" \notin DOMAIN c3.o
        THEN SetItem(c3, "generic_email", JStr(<<>>))
        ELSE c3

\* contact['domain'] = domain raises TypeError on an element that is no dict
normalize(all_contacts, domain, company_name) ==
    IF \E k \in DOMAIN all_contacts : all_contacts[k].t # "obj" THEN Raise
    ELSE Return([k \in DOMAIN all_contacts |->
                    normalize_contact(all_contacts[k], domain, company_name)])

(***************************************************************************)
(* Inputs: the rows of the input table, the bodies the search provider     *)
(* answers with, and the replies of the language model.                    *)
(***************************************************************************)
Company(domain, company_name) ==
    ("Domain" :> <<domain>>) @@ ("Company Name" :> <<company_name>>)

\* the k-th input row; the table repeats a company every other row
Row(k) == IF k % 2 = 1 THEN Company("acme.com", "Acme") ELSE Company("beta.io", "Beta")

Rows(n) == [k \in 1..n |-> Row(k)]

Hit(name) ==
    JObj([title |-> JStr(<<name, " - title">>), link |-> JStr(<<"https://", name>>),
          snippet |-> JStr(<<name, " snippet">>)])

Echo(query) == JObj([q |-> JStr(query)])

\* a shape of the provider's response: one of the named shapes, or a 200
\* response with a given hit list and the query echoed
Shape(kind) == [kind |-> kind]
Hits(organic) == [kind |-> "hits", organic |-> organic]

\* the provider's response of a given shape to a query
SerperResponse(shape, query) ==
    CASE shape.kind = "non200" -> Http(429, NotJson)
      [] shape.kind = "exception" -> HttpError
      [] shape.kind = "notjson" -> Http(200, NotJson)
      [] shape.kind = "hits" ->
            Http(200, JObj([organic |-> JArr(shape.organic),
                            searchParameters |-> Echo(query)]))
      [] shape.kind = "good" ->
            Http(200, JObj([organic |-> JArr(<<Hit("a"), Hit("b")>>),
                            searchParameters |-> Echo(query)]))
      [] shape.kind = "nohits" ->
            Http(200, JObj([organic |-> JArr(<<>>), searchParameters |-> Echo(query)]))
      [] shape.kind = "noecho" -> Http(200, JObj([organic |-> JArr(<<Hit("a")>>)]))
      [] shape.kind = "five" ->
            Http(200, JObj([organic |->
                               JArr(<<Hit("a"), JObj([title |-> JStr(<<"b">>)]),
                                      Hit("c"), Hit("d"), Hit("e")>>),
                            searchParameters |-> Echo(query)]))
      [] shape.kind = "notdict" -> Http(200, JArr(<<>>))
      [] shape.kind = "nullorganic" ->
            Http(200, JObj([organic |-> JNull, searchParameters |-> Echo(query)]))

SerperShapes ==
    {Shape(kind) : kind \in {"non200", "exception", "notjson", "good", "nohits",
                             "noecho", "five", "notdict", "nullorganic"}}

Person(first_name, last_name, title, linkedin_url) ==
    JObj([first_name |-> JStr(<<first_name>>), last_name |-> JStr(<<last_name>>),
          title |-> JStr(title), linkedin_url |-> JStr(linkedin_url),
          generic_email |-> JStr(<<>>), source_url |-> JStr(<<>>),
          company_phone |-> JStr(<<"(614) 316-2342">>)])

Wes == Person("Wes", "Dorman", <<"President">>, <<>>)

Clint ==
    Person("Clint", "Dorman", <<"VP", " ", "Finance">>,
           <<"https://www.", "linkedin.com/", "in/", "clint-dorman">>)

ClintLonger ==
    Person("Clint", "Dorman", <<"VP", " ", "of", " ", "Finance", " ", "and", " ", "Operations">>,
           <<>>)

\* a generic-email contact that the model returned without linkedin_url and
\* with a domain of its own invention
Info ==
    JObj([first_name |-> JStr(<<>>), last_name |-> JStr(<<>>),
          title |-> JStr(<<"Generic Email">>), generic_email |-> JStr(<<"info@example.com">>),
          source_url |-> JStr(<<"https://www.example.com/">>),
          domain |-> JStr(<<"example.com">>)])

\* a person the model returned without generic_email and with a company page
\* as linkedin_url
Ann ==
    JObj([first_name |-> JStr(<<"Ann">>), last_name |-> JStr(<<"Lee">>),
          title |-> JStr(<<"CEO">>),
          linkedin_url |-> JStr(<<"https://www.", "linkedin.com/", "company/", "acme">>)])

\* a record with a person's name and a generic email
Both ==
    JObj([first_name |-> JStr(<<"Bo">>), last_name |-> JStr(<<"Ray">>),
          title |-> JStr(<<"Owner">>), linkedin_url |-> JStr(<<>>),
          generic_email |-> JStr(<<"sales@example.com">>)])

Reply(toks) == Llm(200, Text(toks))

Fenced(tag, v) == tag \o <<Tok("\n"), JsonText(v), Tok("\n"), Tok("FENCE")>>

LlmShapes ==
    { Llm(500, NoChoices), LlmError, Llm(200, NoChoices), Llm(200, JNull),
      Reply(<<JsonText(JArr(<<Wes, Clint, Info>>))>>),
      Reply(Fenced(fence_json, JArr(<<Wes, Ann, Info>>))),
      Reply(Fenced(fence, JArr(<<Wes>>))),
      Reply(Fenced(fence_json, JArr(<<>>))),
      Reply(<<Tok("Sorry, I found no contacts.")>>),
      Reply(<<Tok("FENCE"), Tok("json"), Tok("\n"), Tok("[{first_name: We")>>),
      Reply(<<JsonText(Wes)>>),
      Reply(<<JsonText(JArr(<<Clint, ClintLonger>>))>>),
      Reply(<<JsonText(JArr(<<Both>>))>>),
      Reply(<<JsonText(JArr(<<Wes, JNum(5)>>))>>) }

(***************************************************************************)
(* The coroutines.  task[r] is the process_company coroutine of row r:     *)
(*   pc        "none" (not created), "created", "searching" (awaiting the  *)
(*             gather of its search calls), "extracting" (awaiting         *)
(*             extract_all_contacts), "returned", "raised", "cancelled"    *)
(*   slots     per query, the search_serper call with its query: Pending,  *)
(*             or Done with the provider's response and what the call gave *)
(*             its awaiter                                                 *)
(*   summary   the formatted summary sent to the language model            *)
(*   extracted the list extract_all_contacts returned                      *)
(*   contacts  the list the coroutine returned                             *)
(*   slots and summary are locals that a coroutine drops when it ends.     *)
(*   chunk, session, n_search, n_llm are history: the number of the chunk  *)
(*   and of the session the coroutine was created with, and the search and *)
(*   extraction calls it has issued; so are reply and extraction: the      *)
(*   language-model provider's response and what extract_all_contacts made *)
(*   of it.                                                                *)
(***************************************************************************)
Pending(query) == [state |-> "pending", query |-> query]
Done(query, response, result) ==
    [state |-> "done", query |-> query, response |-> response, result |-> result]

NoReply == [t |-> "noreply"]

NoTask ==
    [pc |-> "none", domain |-> <<>>, company_name |-> <<>>, chunk |-> 0, session |-> 0,
     queries |-> <<>>, slots |-> <<>>, summary |-> <<>>, extracted |-> <<>>,
     contacts |-> <<>>,
     n_search |-> 0, n_llm |-> 0, reply |-> NoReply, extraction |-> Return(<<>>)]

Finished(r) == task[r].pc \in {"returned", "raised", "cancelled"}

\* df.iloc[start:stop], as the 1-based indices of its rows
iloc(start, stop) == [k \in 1..(Min(stop, Len(df)) - start) |-> start + k]

\* a stride that is one short of the slice length
range_next_short(start) == start + batch_size - 1

\* the step of range(0, len(df), self.batch_size)
range_next(start) == start + batch_size

\* a gather whose results are not in the order of tasks
gather_searches_unordered(slots) ==
    IF \E q \in DOMAIN slots : slots[q].result.raised THEN Raise
    ELSE Return([q \in DOMAIN slots |-> slots[Len(slots) + 1 - q].result.value])

\* asyncio.gather(*tasks) over the search calls: the results in the order of tasks,
\* or the exception of a call that raised
gather_searches(slots) ==
    IF \E q \in DOMAIN slots : slots[q].result.raised THEN Raise
    ELSE Return([q \in DOMAIN slots |-> slots[q].result.value])

\* a gather that is over as soon as one coroutine has returned
gather_done_first(companies) ==
    \E k \in DOMAIN companies : task[companies[k]].pc = "returned"

\* asyncio.gather(*tasks) in process_batch has every result
gather_done(companies) == \A k \in DOMAIN companies : task[companies[k]].pc = "returned"

\* ... or passes on the exception of a coroutine that raised
gather_raised(companies) == \E k \in DOMAIN companies : task[companies[k]].pc = "raised"

\* results = await asyncio.gather(*tasks)
gather_results(companies) == [k \in DOMAIN companies |-> task[companies[k]].contacts]

\* a flattening that takes the results last first
flatten_last_first(results) ==
    Concat([k \in DOMAIN results |-> results[Len(results) + 1 - k]])

\* "Flatten results"
flatten(results) == Concat(results)

\* a response may arrive for row r: every coroutine has issued its calls, and
\* under fifo the earlier rows of the chunk are through
MayRespond(r) ==
    /\ \A x \in DOMAIN task : task[x].pc # "created"
    /\ fifo => \A x \in 1..(r - 1) : task[x].chunk = task[r].chunk => Finished(x)

(***************************************************************************)
(* run: the for loop takes the next chunk and calls process_batch, which   *)
(* opens a session and creates one coroutine per company, up to the await  *)
(* of gather; or the loop is over and run returns all_results.             *)
(***************************************************************************)
run_loop ==
    /\ pc = "loop"
    /\ IF i < Len(df)
       THEN /\ batch' = iloc(i, i + batch_size)
            /\ chunks' = Append(chunks, iloc(i, i + batch_size))
            /\ session' = [n |-> session.n + 1, open |-> TRUE]
            /\ task' = [r \in DOMAIN task |->
                          IF r \in Range(iloc(i, i + batch_size))
                          THEN [NoTask EXCEPT !.pc = "created",
                                              !.domain = df[r]["Domain"],
                                              !.company_name = df[r]["Company Name"],
                                              !.chunk = Len(chunks) + 1,
                                              !.session = session.n + 1]
                          ELSE task[r]]
            /\ pc' = "gather"
       ELSE /\ pc' = "done"
            /\ UNCHANGED <<batch, chunks, session, task>>
    /\ UNCHANGED <<df, batch_size, serper, llm, fifo, i, all_results>>

(***************************************************************************)
(* process_company up to its first await: the queries are generated and    *)
(* the five search calls issued.  The event loop starts the coroutines of  *)
(* a chunk in the order of the chunk.                                      *)
(***************************************************************************)
process_company_start(r) ==
    /\ task[r].pc = "created"
    /\ \A x \in 1..(r - 1) : task[x].pc # "created"
    /\ task' = [task EXCEPT ![r] =
                  [@ EXCEPT !.pc = "searching",
                            !.queries = queries_of(task[r].domain, task[r].company_name),
                            !.slots = [q \in QueryIds |->
                                        Pending(queries_of(task[r].domain,
                                                           task[r].company_name)[q])],
                            !.n_search = Len(search_queries)]]
    /\ UNCHANGED <<df, batch_size, serper, llm, fifo, pc, i, batch, session,
                   all_results, chunks>>

(***************************************************************************)
(* search_serper: the provider answers the q-th call of row r.             *)
(***************************************************************************)
search_serper_return(r, q) ==
    /\ task[r].pc = "searching"
    /\ task[r].slots[q].state = "pending"
    /\ MayRespond(r)
    /\ fifo => \A x \in 1..(q - 1) : task[r].slots[x].state = "done"
    /\ \E shape \in serper[q] :
          LET query == task[r].slots[q].query
              response == SerperResponse(shape, query)
          IN  task' = [task EXCEPT ![r].slots[q] =
                         Done(query, response, search_serper(query, response))]
    /\ UNCHANGED <<df, batch_size, serper, llm, fifo, pc, i, batch, session,
                   all_results, chunks>>

(***************************************************************************)
(* process_company after the gather of its search calls: the summary is    *)
(* formatted and extract_all_contacts posts it to the language model.      *)
(***************************************************************************)
process_company_format(r) ==
    /\ task[r].pc = "searching"
    /\ \A q \in QueryIds : task[r].slots[q].state = "done"
    /\ LET results == gather_searches(task[r].slots)
           summary == IF results.raised THEN Raise
                      ELSE format_search_results(results.value)
       IN  task' = [task EXCEPT ![r] =
                      IF summary.raised
                      THEN [@ EXCEPT !.pc = "raised",
                                     !.slots = <<>>]
                      ELSE [@ EXCEPT !.pc = "extracting",
                                     !.summary = summary.value,
                                     !.n_llm = @ + 1]]
    /\ UNCHANGED <<df, batch_size, serper, llm, fifo, pc, i, batch, session,
                   all_results, chunks>>

(***************************************************************************)
(* extract_all_contacts gets the provider's response; process_company      *)
(* normalises the contacts and returns them.                               *)
(***************************************************************************)
extract_return(r) ==
    /\ task[r].pc = "extracting"
    /\ MayRespond(r)
    /\ \E response \in llm :
          LET extraction == extract_all_contacts(response)
              extracted == IF extraction.raised THEN <<>> ELSE extraction.value
              all_contacts == IF extraction.raised THEN Raise
                              ELSE normalize(extracted, task[r].domain,
                                             task[r].company_name)
          IN  task' = [task EXCEPT ![r] =
                         IF all_contacts.raised
                         THEN [@ EXCEPT !.pc = "raised",
                                        !.slots = <<>>,
                                        !.summary = <<>>,
                                        !.reply = response,
                                        !.extraction = extraction,
                                        !.extracted = extracted]
                         ELSE [@ EXCEPT !.pc = "returned",
                                        !.slots = <<>>,
                                        !.summary = <<>>,
                                        !.reply = response,
                                        !.extraction = extraction,
                                        !.extracted = extracted,
                                        !.contacts = all_contacts.value]]
    /\ UNCHANGED <<df, batch_size, serper, llm, fifo, pc, i, batch, session,
                   all_results, chunks>>

(***************************************************************************)
(* process_batch after its gather: the results are flattened, the session  *)
(* is closed, and run extends all_results and goes to the next chunk.      *)
(***************************************************************************)
process_batch_return ==
    /\ pc = "gather"
    /\ gather_done(batch)
    /\ all_results' = all_results \o flatten(gather_results(batch))
    /\ session' = [session EXCEPT !.open = FALSE]
    /\ i' = range_next(i)
    /\ pc' = "loop"
    /\ UNCHANGED <<df, batch_size, serper, llm, fifo, batch, task, chunks>>

(***************************************************************************)
(* A coroutine of the chunk raised: gather raises in process_batch, the    *)
(* session is closed, run raises, and asyncio.run cancels what is left.    *)
(***************************************************************************)
process_batch_raise ==
    /\ pc = "gather"
    /\ gather_raised(batch)
    /\ session' = [session EXCEPT !.open = FALSE]
    /\ task' = [r \in DOMAIN task |->
                  IF task[r].pc \in {"created", "searching", "extracting"}
                  THEN [task[r] EXCEPT !.pc = "cancelled"]
                  ELSE task[r]]
    /\ pc' = "raised"
    /\ UNCHANGED <<df, batch_size, serper, llm, fifo, i, batch, all_results, chunks>>

Next ==
    \/ run_loop
    \/ \E r \in DOMAIN task : process_company_start(r)
    \/ \E r \in DOMAIN task : \E q \in QueryIds : search_serper_return(r, q)
    \/ \E r \in DOMAIN task : process_company_format(r)
    \/ \E r \in DOMAIN task : extract_return(r)
    \/ process_batch_return
    \/ process_batch_raise

(***************************************************************************)
(* Initial states: run has read df and is about to enter its loop.         *)
(***************************************************************************)
Start(rows, size, provider, model, ordered) ==
    /\ df = rows
    /\ batch_size = size
    /\ serper = provider
    /\ llm = model
    /\ fifo = ordered
    /\ pc = "loop"
    /\ i = 0
    /\ batch = <<>>
    /\ session = [n |-> 0, open |-> FALSE]
    /\ task = [r \in 1..Len(rows) |-> NoTask]
    /\ all_results = <<>>
    /\ chunks = <<>>

\* the search provider of a run: every call answered alike, or one query failing
SerperRuns ==
    { [q \in QueryIds |-> {Shape("non200")}],
      [q \in QueryIds |-> IF q = 3 THEN {Shape("exception")} ELSE {Shape("five")}],
      [q \in QueryIds |-> IF q = 2 THEN {Shape("notdict")} ELSE {Shape("good")}] }

LlmRuns ==
    { Llm(500, NoChoices),
      Reply(Fenced(fence_json, JArr(<<Wes, Ann, Info>>))),
      Reply(<<JsonText(JArr(<<Clint, ClintLonger>>))>>),
      Reply(<<JsonText(JArr(<<Both>>))>>),
      Reply(<<JsonText(JArr(<<Wes, JNum(5)>>))>>) }

\* a few companies, chunks of BatchSize, responses in any order
Init ==
    \E n \in 0..MaxCompanies : \E provider \in SerperRuns :
        Start(Rows(n), BatchSize, provider, LlmRuns, FALSE)

Spec == Init /\ [][Next]_vars

\* every search call and every extraction call eventually returns, and the event
\* loop runs a coroutine that is ready: a step that can be taken is eventually
\* taken
Fairness == WF_vars(Next)

\* a few companies in chunks of BatchSize, the responses in the order of the calls
InitLive ==
    \E n \in 0..MaxCompanies : \E provider \in SerperRuns :
        Start(Rows(n), BatchSize, provider, LlmRuns, TRUE)

SpecLive == InitLive /\ [][Next]_vars /\ Fairness

\* self.batch_size = 14
ChunkSize == 14

\* one company; at every call the provider may fail, answer well or answer
\* with a malformed body, and the language model may reply anything
CompanyShapes == SerperShapes \ {Shape("nohits"), Shape("nullorganic")}

InitCompany ==
    Start(Rows(1), ChunkSize, [q \in QueryIds |-> CompanyShapes], LlmShapes, FALSE)

SpecCompany == InitCompany /\ [][Next]_vars

\* "With 50 req/sec ..."
RateLimit == 50

\* tables of up to MaxRows rows in chunks of 14; the search provider answers every
\* call well, the language model replies well or with an element that is no
\* contact, and the responses arrive in the order of the calls
InitChunks ==
    \E n \in 0..MaxRows :
      \E reply \in {Reply(Fenced(fence_json, JArr(<<Wes, Info>>))),
                     Reply(<<JsonText(JArr(<<Wes, JNum(5)>>))>>)} :
        Start(Rows(n), ChunkSize, [q \in QueryIds |-> {Shape("good")}], {reply}, TRUE)

SpecChunks == InitChunks /\ [][Next]_vars

\* the values the language model may give as linkedin_url: every text of up to
\* MaxUrlLen tokens, values that are no str, and no linkedin_url key at all
UrlTokens ==
    {" ", "linkedin.com/", "in/", "company/", "posts/", "pub/dir/", "feed/",
     "jobs/", "school/"}

UrlStrings == UNION {[1..n -> UrlTokens] : n \in 0..MaxUrlLen}

Missing == [t |-> "missing"]

UrlValues == {JStr(u) : u \in UrlStrings} \cup {JNull, JNum(0), JNum(7), JArr(<<>>), Missing}

UrlContact(url) ==
    IF url = Missing
    THEN JObj([first_name |-> JStr(<<"Jane">>), last_name |-> JStr(<<"Doe">>),
               title |-> JStr(<<"CEO">>)])
    ELSE JObj([first_name |-> JStr(<<"Jane">>), last_name |-> JStr(<<"Doe">>),
               title |-> JStr(<<"CEO">>), linkedin_url |-> url])

\* one company whose extraction returns one contact with any of these values (or
\* an element that is no contact); the search provider answers every call well
InitLinkedin ==
    \E reply \in {Reply(<<JsonText(JArr(<<UrlContact(url)>>))>>) : url \in UrlValues}
                     \cup {Reply(<<JsonText(JArr(<<JNum(5)>>))>>)} :
        Start(Rows(1), ChunkSize, [q \in QueryIds |-> {Shape("good")}], {reply}, TRUE)

SpecLinkedin == InitLinkedin /\ [][Next]_vars

\* the hit lists the search provider may answer with: up to MaxHits hits, each
\* a full hit, a hit without one of its fields, or a full hit whose snippet
\* holds the text of a separator, of a hit and of a header
HitKinds == {"full", "notitle", "nolink", "nosnippet", "hostile"}

HitNames == <<"h1", "h2", "h3", "h4", "h5", "h6", "h7", "h8">>

hostile_snippet ==
    <<"x", "\n---\n", "- ", "fake", "\n\n\n", "**Search Query:** ", "fake query", "\n\n">>

HitOfKind(kind, name) ==
    CASE kind = "full" -> Hit(name)
      [] kind = "notitle" ->
            JObj([link |-> JStr(<<"https://", name>>), snippet |-> JStr(<<name, " snippet">>)])
      [] kind = "nolink" ->
            JObj([title |-> JStr(<<name, " - title">>), snippet |-> JStr(<<name, " snippet">>)])
      [] kind = "nosnippet" ->
            JObj([title |-> JStr(<<name, " - title">>), link |-> JStr(<<"https://", name>>)])
      [] kind = "hostile" ->
            JObj([title |-> JStr(<<name, " - title">>), link |-> JStr(<<"https://", name>>),
                  snippet |-> JStr(hostile_snippet)])

HitLists ==
    {[k \in DOMAIN kinds |-> HitOfKind(kinds[k], HitNames[k])] :
        kinds \in UNION {[1..n -> HitKinds] : n \in 0..MaxHits}}

\* the provider of the formatter's runs: the second call gets a hit list, the
\* others a good answer, a status other than 200, no hits, a transport error
FormatProvider(organic) ==
    [q \in QueryIds |->
        CASE q = 1 -> {Shape("good")}
          [] q = 2 -> {Hits(organic)}
          [] q = 3 -> {Shape("non200")}
          [] q = 4 -> {Shape("nohits")}
          [] q = 5 -> {Shape("exception")}]

\* one company, any hit list for its second search; the language model replies
\* well (or, for a run without hits, with an element that is no contact)
InitFormat ==
    \/ \E organic \in HitLists :
          Start(Rows(1), ChunkSize, FormatProvider(organic),
                {Reply(Fenced(fence_json, JArr(<<Wes, Info>>)))}, TRUE)
    \/ Start(Rows(1), ChunkSize, FormatProvider(<<>>),
             {Reply(<<JsonText(JArr(<<JNum(5)>>))>>)}, TRUE)

SpecFormat == InitFormat /\ [][Next]_vars

\* a person whose title holds a markdown fence
Noted ==
    JObj([first_name |-> JStr(<<"Ann">>), last_name |-> JStr(<<"Lee">>),
          title |-> JStr(<<"CEO ", "FENCE">>), linkedin_url |-> JStr(<<>>),
          generic_email |-> JStr(<<>>)])

\* a string somewhere in the value holds a fence
RECURSIVE HasFence(_)
HasFence(v) ==
    CASE v.t = "str" -> Contains(v.s, <<"FENCE">>)
      [] v.t = "arr" -> \E k \in DOMAIN v.a : HasFence(v.a[k])
      [] v.t = "obj" -> \E k \in DOMAIN v.o : HasFence(v.o[k])
      [] OTHER -> FALSE

\* the JSON text of a value, as the language model writes it
dumps(v) ==
    IF HasFence(v) THEN <<JsonHead(v), Tok("FENCE"), JsonTail(v)>> ELSE <<JsonText(v)>>

\* the ways the language model lays a JSON text out: alone, in a fence tagged
\* json, in a bare fence, in a fence tagged json after a bare fence around prose
Layouts == {"alone", "json", "bare", "both"}

Layout(layout, text) ==
    CASE layout = "alone" -> text
      [] layout = "json" -> fence_json \o <<Tok("\n")>> \o text \o <<Tok("\n"), Tok("FENCE")>>
      [] layout = "bare" -> fence \o <<Tok("\n")>> \o text \o <<Tok("\n"), Tok("FENCE")>>
      [] layout = "both" ->
            <<Tok("FENCE"), Tok("\n"), Tok("the contacts"), Tok("\n"), Tok("FENCE"),
              Tok("\n")>>
                \o fence_json \o <<Tok("\n")>> \o text \o <<Tok("\n"), Tok("FENCE")>>

\* the arrays the language model may reply with
ReplyArrays ==
    { JArr(<<>>), JArr(<<Wes>>), JArr(<<Wes, Clint, Info>>), JArr(<<Noted>>),
      JArr(<<Wes, JNum(5)>>) }

LayoutsOf(array) == {Reply(Layout(layout, dumps(array))) : layout \in Layouts}

\* two companies; the language model replies with one array, laid out in any
\* of the ways; the search provider answers every call well
InitFence ==
    \E array \in ReplyArrays :
        Start(Rows(2), ChunkSize, [q \in QueryIds |-> {Shape("good")}], LayoutsOf(array),
              FALSE)

SpecFence == InitFence /\ [][Next]_vars

\* the companies of the query runs: domains and names of one or more tokens,
\* empty ones, and ones that hold braces or the text of a replacement field
QueryDomains == {<<"acme.com">>, <<>>, <<"{company_name}">>, <<"a", " ", "b.io">>}

QueryNames == {<<"Acme">>, <<"{domain}">>, <<"Acme", " ", "Inc">>, <<"{">>}

QueryCompanies ==
    {("Domain" :> d) @@ ("Company Name" :> c) : d \in QueryDomains, c \in QueryNames}

\* up to MaxQueryRows of these companies in one chunk, the same one twice
\* included; the language model replies well or with an element that is no
\* contact
InitQueries ==
    \E n \in 1..MaxQueryRows : \E rows \in [1..n -> QueryCompanies] :
        Start(rows, ChunkSize, [q \in QueryIds |-> {Shape("good")}],
              {Reply(<<JsonText(JArr(<<Wes>>))>>), Reply(<<JsonText(JArr(<<JNum(5)>>))>>)},
              TRUE)

SpecQueries == InitQueries /\ [][Next]_vars

(***************************************************************************)
(* Claims.                                                                 *)
(***************************************************************************)
Started(r) == task[r].n_search > 0 \/ task[r].n_llm > 0

\* C1: chunks are processed strictly one after another: no company of a later
\* chunk has started a search or extraction call unless every company of every
\* earlier chunk has returned from its whole pipeline.
C1_ChunksSequential ==
    \A r1 \in DOMAIN task : \A r2 \in DOMAIN task :
        (task[r1].chunk # 0 /\ task[r1].chunk < task[r2].chunk /\ Started(r2))
            => task[r1].pc = "returned"

\* a company of the second chunk awaits its extraction call
C1_Witness ==
    \E r \in DOMAIN task : task[r].chunk = 2 /\ task[r].pc = "extracting"

\* C2: when run returns, all_results is the concatenation of the companies'
\* normalised contact lists in the order of the input rows (and so it is after
\* every chunk, for the rows of the chunks done), whatever the order in which
\* the pipelines completed.
C2_OutputInInputOrder ==
    pc \in {"loop", "done"} =>
        /\ \A r \in 1..Min(i, Len(df)) : task[r].pc = "returned"
        /\ all_results = Concat([r \in 1..Min(i, Len(df)) |-> task[r].contacts])

\* run has returned the contacts of three companies, two of one chunk with
\* different contact lists
C2_Witness ==
    /\ pc = "done"
    /\ Len(df) = 3
    /\ task[1].contacts # <<>>
    /\ task[2].contacts # <<>>
    /\ task[1].contacts # task[2].contacts
    /\ task[3].contacts # <<>>

\* C3: a failure in one company's pipeline never aborts the batch: run never
\* ends with an exception and no company's pipeline is cancelled.
C3_FailureConfined ==
    /\ pc # "raised"
    /\ \A r \in DOMAIN task : task[r].pc # "cancelled"

\* the search call of a slot failed: a transport error or a status other than 200
Failed(slot) ==
    slot.state = "done" /\ (slot.response.exc \/ slot.response.status # 200)

\* the summary holds the header of the query followed by no hit
HeaderWithNoHits(summary, query) ==
    LET header == <<"**Search Query:** ">> \o query \o <<"\n\n">> IN
    \E k \in 1..Len(summary) :
        /\ OccursAt(summary, header, k)
        /\ \/ k + Len(header) - 1 = Len(summary)
           \/ summary[k + Len(header)] = "\n\n\n"

\* C4: search_serper never raises; a call that got a status other than 200 or a
\* transport error returns an empty hit list with the query of the call, which
\* the formatter takes without raising, and the summary of the company holds
\* the header of that query with no hits.
C4_SearchFailSoft ==
    \A r \in DOMAIN task :
        /\ \A k \in DOMAIN task[r].slots :
              task[r].slots[k].state = "done" => ~task[r].slots[k].result.raised
        /\ \A k \in DOMAIN task[r].slots :
              Failed(task[r].slots[k]) =>
                 /\ task[r].slots[k].query = task[r].queries[k]
                 /\ task[r].slots[k].result.value =
                       JObj([organic |-> JArr(<<>>),
                             searchParameters |->
                                 JObj([q |-> JStr(task[r].queries[k])])])
                 /\ ~SectionRaises(task[r].slots[k].result.value)
        /\ task[r].pc = "extracting" =>
              \A k \in DOMAIN task[r].slots :
                 Failed(task[r].slots[k]) =>
                    HeaderWithNoHits(task[r].summary, task[r].queries[k])

\* a company awaits its extraction; its second search call raised a transport
\* error, its fourth got a status other than 200 and its first got hits
C4_Witness ==
    \E r \in DOMAIN task :
        /\ task[r].pc = "extracting"
        /\ task[r].slots[2].response.exc
        /\ ~task[r].slots[4].response.exc
        /\ task[r].slots[4].response.status # 200
        /\ ~Failed(task[r].slots[1])
        /\ Contains(task[r].summary, <<"- ">>)

\* C5: whatever the order in which the five search calls of a company complete,
\* the k-th call carries the query of the k-th template and the summary is made
\* of the calls' results in template order: its k-th section is the section of
\* the k-th call's result.
C5_TemplateOrder ==
    \A r \in DOMAIN task :
        task[r].pc = "extracting" =>
            /\ \A k \in QueryIds :
                  task[r].slots[k].query =
                      format(search_queries[k], task[r].domain, task[r].company_name)
            /\ task[r].summary =
                  Join(<<"\n\n\n">>,
                       [k \in QueryIds |-> section(task[r].slots[k].result.value)])

\* a company awaits its extraction with five different search results
C5_Witness ==
    \E r \in DOMAIN task :
        /\ task[r].pc = "extracting"
        /\ \A a \in QueryIds : \A b \in QueryIds :
              a # b => task[r].slots[a].result.value # task[r].slots[b].result.value

\* the chunks that hold row r
ChunksOf(r) == {c \in DOMAIN chunks : r \in Range(chunks[c])}

InFlight ==
    {rq \in (DOMAIN task) \X QueryIds :
        task[rq[1]].pc = "searching" /\ task[rq[1]].slots[rq[2]].state = "pending"}

\* C7: the search requests a chunk has in flight at once never exceed the
\* provider limit of 50 that the code sizes the batch for.
C7_WithinRateLimit == Cardinality(InFlight) <= RateLimit

\* the text of a field of a contact; no text when the field is missing or no str
Field(contact, k) ==
    IF k \in DOMAIN contact.o /\ contact.o[k].t = "str" THEN contact.o[k].s ELSE <<>>

IsPerson(contact) ==
    /\ Field(contact, "first_name") # <<>>
    /\ Field(contact, "last_name") # <<>>
    /\ Get(contact, "generic_email", JNull) = JStr(<<>>)

IsGenericEmail(contact) ==
    /\ Get(contact, "first_name", JNull) = JStr(<<>>)
    /\ Get(contact, "last_name", JNull) = JStr(<<>>)
    /\ Get(contact, "title", JNull) = JStr(<<"Generic Email">>)
    /\ Field(contact, "generic_email") # <<>>

SameName(c, d) ==
    /\ Field(c, "first_name") # <<>>
    /\ Field(c, "last_name") # <<>>
    /\ Field(c, "first_name") = Field(d, "first_name")
    /\ Field(c, "last_name") = Field(d, "last_name")

\* C8: when run returns, the contacts a company's pipeline returned hold no two records of the same
\* person (same first and last name), and when the extracted records held the
\* person twice the record returned carries the longest of the titles.
C8_Deduplicated ==
    \A r \in DOMAIN task :
        (pc = "done" /\ task[r].pc = "returned") =>
            /\ \A a \in DOMAIN task[r].contacts : \A b \in DOMAIN task[r].contacts :
                  SameName(task[r].contacts[a], task[r].contacts[b]) => a = b
            /\ \A a \in DOMAIN task[r].extracted : \A b \in DOMAIN task[r].contacts :
                  SameName(task[r].extracted[a], task[r].contacts[b]) =>
                      Len(Field(task[r].contacts[b], "title")) >=
                          Len(Field(task[r].extracted[a], "title"))

\* C9: every record of all_results is a person contact or a generic-email
\* contact.
C9_PersonOrGenericEmail ==
    \A k \in DOMAIN all_results :
        IsPerson(all_results[k]) \/ IsGenericEmail(all_results[k])

\* the predicate of the claim: the text holds the path of a personal profile and
\* none of the six other paths
IsProfileUrl(s) ==
    /\ Contains(s, <<"linkedin.com/", "in/">>)
    /\ ~Contains(s, <<"linkedin.com/", "company/">>)
    /\ ~Contains(s, <<"linkedin.com/", "posts/">>)
    /\ ~Contains(s, <<"linkedin.com/", "pub/dir/">>)
    /\ ~Contains(s, <<"linkedin.com/", "feed/">>)
    /\ ~Contains(s, <<"linkedin.com/", "jobs/">>)
    /\ ~Contains(s, <<"linkedin.com/", "school/">>)

\* the linkedin_url the extraction gave for a record; "" when the key is missing
RawUrl(contact) == Get(contact, "linkedin_url", JStr(<<>>))

\* C10 as amended: every linkedin_url in run's result is "" or satisfies the
\* predicate; the validator gives its argument with the white space around it
\* stripped exactly when the argument is a str that satisfies the predicate, and
\* "" for every other input (the empty string, a missing field, a value that is
\* no str).
C10_LinkedinUrlStripped ==
    /\ \A k \in DOMAIN all_results :
          /\ all_results[k].o["linkedin_url"].t = "str"
          /\ \/ all_results[k].o["linkedin_url"].s = <<>>
             \/ IsProfileUrl(all_results[k].o["linkedin_url"].s)
    /\ \A r \in DOMAIN task :
          task[r].pc = "returned" =>
              \A k \in DOMAIN task[r].contacts :
                  task[r].contacts[k].o["linkedin_url"] =
                      IF RawUrl(task[r].extracted[k]).t = "str"
                         /\ IsProfileUrl(RawUrl(task[r].extracted[k]).s)
                      THEN JStr(Strip(RawUrl(task[r].extracted[k]).s))
                      ELSE JStr(<<>>)

\* run has returned a contact whose linkedin_url was accepted and is not the
\* text the extraction gave
C10_Witness ==
    /\ pc = "done"
    /\ Len(all_results) = 1
    /\ all_results[1].o["linkedin_url"].s # <<>>
    /\ all_results[1].o["linkedin_url"] # RawUrl(task[1].extracted[1])

\* C10 as claimed: the validator gives its argument itself exactly when the
\* predicate holds, and "" for every other input.
C10_LinkedinUrlUnchanged ==
    \A r \in DOMAIN task :
        task[r].pc = "returned" =>
            \A k \in DOMAIN task[r].contacts :
                task[r].contacts[k].o["linkedin_url"] =
                    IF RawUrl(task[r].extracted[k]).t = "str"
                       /\ IsProfileUrl(RawUrl(task[r].extracted[k]).s)
                    THEN RawUrl(task[r].extracted[k])
                    ELSE JStr(<<>>)

\* the number of records the pipelines of the rows before r extracted
RECURSIVE Offset(_)
Offset(r) == IF r <= 1 THEN 0 ELSE Offset(r - 1) + Len(task[r - 1].extracted)

\* C11: every contact of run's result carries the domain and company_name of
\* the input row whose pipeline extracted it: the k-th record a row's pipeline
\* extracted is, in all_results, found after the records of the rows before it,
\* with the row's Domain and Company Name, whatever the record held in these
\* fields and whatever the order in which the pipelines completed.
C11_CompanyOfContact ==
    /\ \A r \in DOMAIN task :
          task[r].pc = "returned" =>
              /\ Len(task[r].contacts) = Len(task[r].extracted)
              /\ \A k \in DOMAIN task[r].contacts :
                    /\ task[r].contacts[k].o["domain"] = JStr(df[r]["Domain"])
                    /\ task[r].contacts[k].o["company_name"] = JStr(df[r]["Company Name"])
    /\ pc \in {"loop", "done"} =>
          /\ Len(all_results) = Offset(Min(i, Len(df)) + 1)
          /\ \A r \in 1..Min(i, Len(df)) : \A k \in DOMAIN task[r].extracted :
                /\ all_results[Offset(r) + k].o["domain"] = JStr(df[r]["Domain"])
                /\ all_results[Offset(r) + k].o["company_name"] =
                      JStr(df[r]["Company Name"])
                /\ Get(all_results[Offset(r) + k], "title", JNull) =
                      Get(task[r].extracted[k], "title", JNull)

\* run has returned; the second row's pipeline extracted a record with a domain
\* of the model's invention, and the record is in the result with the domain
\* of the second row, after a record of the first row
C11_Witness ==
    /\ pc = "done"
    /\ Len(df) >= 2
    /\ task[1].extracted # <<>>
    /\ \E k \in DOMAIN task[2].extracted :
          /\ Get(task[2].extracted[k], "domain", JNull) = JStr(<<"example.com">>)
          /\ all_results[Offset(2) + k].o["domain"] = JStr(<<"beta.io">>)
          /\ df[1]["Domain"] # df[2]["Domain"]

\* the positions of a token in a text
Positions(s, tok) == {k \in DOMAIN s : s[k] = tok}

\* the end of the block that the header at position p opens: the position before
\* the next header, or the end of the text
BlockEnd(s, p) ==
    IF \E x \in Positions(s, "**Search Query:** ") : x > p
    THEN (CHOOSE x \in Positions(s, "**Search Query:** ") :
              x > p /\ \A y \in Positions(s, "**Search Query:** ") : y > p => x <= y) - 1
    ELSE Len(s)

\* C12: the summary holds exactly one "**Search Query:**" header per search
\* result, the k-th header followed by the query of the k-th result, and the
\* block a header opens holds at most 4 rendered hits, whatever the text of the
\* titles, links and snippets.
C12_OneHeaderPerResult ==
    \A r \in DOMAIN task :
        task[r].pc = "extracting" =>
            LET s == task[r].summary
                P == Positions(s, "**Search Query:** ")
            IN  /\ Cardinality(P) = Len(task[r].slots)
                /\ \A p \in P :
                      /\ Cardinality({x \in P : x < p}) + 1 \in DOMAIN task[r].slots
                      /\ OccursAt(s,
                                  PyStr(section_query(
                                      task[r].slots[Cardinality({x \in P : x < p}) + 1]
                                          .result.value)),
                                  p + 1)
                      /\ Cardinality({k \in p..BlockEnd(s, p) : s[k] = "- "}) <= 4

\* the text json.loads is given: the reply, or what is between the fences
\* of a reply that holds a fence
Parsed(reply) == json_loads(strip_fence(reply.data.toks))

\* the extraction of a reply failed
ExtractionFailed(reply) ==
    \/ reply.exc
    \/ reply.status # 200
    \/ reply.data.t # "text"
    \/ Parsed(reply).raised
    \/ Parsed(reply).value.t # "arr"

C14_FenceNeutral ==
    \A r \in DOMAIN task :
        task[r].reply # NoReply =>
            /\ ~task[r].extraction.raised
            /\ \A array \in ReplyArrays :
                  task[r].reply \in LayoutsOf(array) =>
                      task[r].extraction.value = array.a
            /\ task[r].reply = Reply(Layout("json", <<JsonText(JArr(<<>>))>>)) =>
                  task[r].extraction.value = <<>>

\* C15: one session per chunk, shared by the calls of the chunk: a company has
\* the session that was opened for its chunk, a call in flight uses that
\* session while it is open, and once that session is closed (or a later one
\* has been opened) every company pipeline of the chunk has completed.  The
\* model holds one session at a time: the sessions are numbered, and the
\* latest one is open or closed.
C15_SessionPerChunk ==
    \A r \in DOMAIN task :
        task[r].chunk # 0 =>
            /\ task[r].session = task[r].chunk
            /\ task[r].session <= session.n
            /\ task[r].pc \in {"created", "searching", "extracting"} =>
                  session.open /\ task[r].session = session.n
            /\ (task[r].session < session.n \/ ~session.open) =>
                  task[r].pc \in {"returned", "raised"}

\* C16: every contact process_company returns has a generic_email field: the
\* empty string when the extracted record had no such field, the extracted
\* record's value otherwise; and so has every record of all_results.
C16_GenericEmailDefault ==
    /\ \A k \in DOMAIN all_results : "generic_email" \in DOMAIN all_results[k].o
    /\ \A r \in DOMAIN task :
          task[r].pc = "returned" =>
              \A k \in DOMAIN task[r].contacts :
                  /\ "generic_email" \in DOMAIN task[r].contacts[k].o
                  /\ task[r].contacts[k].o["generic_email"] =
                        IF "generic_email" \in DOMAIN task[r].extracted[k].o
                        THEN task[r].extracted[k].o["generic_email"]
                        ELSE JStr(<<>>)

\* a company's pipeline has returned a contact that was extracted without
\* generic_email and a contact that was extracted with an address
C16_Witness ==
    \E r \in DOMAIN task :
        /\ task[r].pc = "returned"
        /\ \E k \in DOMAIN task[r].contacts :
              /\ "generic_email" \notin DOMAIN task[r].extracted[k].o
              /\ task[r].contacts[k].o["generic_email"] = JStr(<<>>)
        /\ \E k \in DOMAIN task[r].contacts :
              /\ "generic_email" \in DOMAIN task[r].extracted[k].o
              /\ task[r].contacts[k].o["generic_email"] = JStr(<<"info@example.com">>)

\* the five queries of a company, template by template
QueriesOf(domain, company_name) ==
    << domain \o <<" ">> \o company_name \o <<" CEO -zoominfo -dnb">>,
       domain \o <<" ">> \o company_name \o <<" Founder owner -zoominfo -dnb">>,
       domain \o <<" ">> \o company_name \o <<" president chairman -zoominfo -dnb">>,
       domain \o <<" ">> \o company_name \o <<" partner -zoominfo -dnb">>,
       domain \o <<" ">> \o company_name \o <<" contact email">> >>

\* s begins with p
StartsWith(s, p) == Len(p) <= Len(s) /\ SubSeq(s, 1, Len(p)) = p

\* C17: a company's pipeline generates exactly 5 queries, the k-th from the
\* k-th template; each holds the row's domain and company name as they are,
\* whatever their text; two rows with the same company have the same queries.
C17_FiveQueries ==
    /\ \A r \in DOMAIN task :
          task[r].n_search > 0 =>
              /\ Len(task[r].queries) = 5
              /\ task[r].n_search = 5
              /\ task[r].queries = QueriesOf(df[r]["Domain"], df[r]["Company Name"])
              /\ \A k \in DOMAIN task[r].queries :
                    /\ StartsWith(task[r].queries[k], df[r]["Domain"])
                    /\ OccursAt(task[r].queries[k], df[r]["Company Name"],
                                Len(df[r]["Domain"]) + 2)
              /\ \A k \in DOMAIN task[r].slots : task[r].slots[k].query = task[r].queries[k]
    /\ \A r1 \in DOMAIN task : \A r2 \in DOMAIN task :
          (task[r1].n_search > 0 /\ task[r2].n_search > 0 /\ df[r1] = df[r2]) =>
              task[r1].queries = task[r2].queries

\* two rows with the same company, whose domain is the text of a replacement
\* field, have issued their searches
C17_Witness ==
    /\ Len(df) = 2
    /\ df[1] = df[2]
    /\ df[1]["Domain"] = <<"{company_name}">>
    /\ df[1]["Company Name"] = <<"Acme", " ", "Inc">>
    /\ task[1].n_search = 5
    /\ task[2].n_search = 5
    /\ task[2].pc = "searching"

\* the search call of a slot got a 200 response whose body is a JSON object
\* without searchParameters.q
NoEcho(slot) ==
    /\ slot.state = "done"
    /\ ~slot.response.exc
    /\ slot.response.status = 200
    /\ slot.response.body.t = "obj"
    /\ \/ "searchParameters" \notin DOMAIN slot.response.body.o
       \/ "q" \notin DOMAIN slot.response.body.o["searchParameters"].o

\* the header at position p of the summary is the k-th and shows the text
ShowsAt(summary, p, k, text) ==
    /\ Cardinality({x \in Positions(summary, "**Search Query:** ") : x < p}) + 1 = k
    /\ OccursAt(summary, text \o <<"\n\n">>, p + 1)

\* C18 as amended: the header of the k-th section shows searchParameters.q of
\* the k-th result: the query that was generated from the k-th template and
\* sent, when the provider echoed it or the call failed (a status other than
\* 200, a transport error, a body that is no JSON), and "(No query found)"
\* when the 200 response holds no searchParameters.q.
C18_HeaderShowsResultQuery ==
    \A r \in DOMAIN task :
        task[r].pc = "extracting" =>
            /\ Cardinality(Positions(task[r].summary, "**Search Query:** ")) = 5
            /\ \A k \in QueryIds :
                  \E p \in Positions(task[r].summary, "**Search Query:** ") :
                      ShowsAt(task[r].summary, p, k,
                              IF NoEcho(task[r].slots[k])
                              THEN <<"(No query found)">>
                              ELSE format(search_queries[k], task[r].domain,
                                          task[r].company_name))

\* a company awaits its extraction after a first search without echo, a second
\* that failed and a third with hits and echo
C18_Witness ==
    \E r \in DOMAIN task :
        /\ task[r].pc = "extracting"
        /\ NoEcho(task[r].slots[1])
        /\ Failed(task[r].slots[2])
        /\ ~Failed(task[r].slots[3])
        /\ ~NoEcho(task[r].slots[3])
        /\ Contains(task[r].summary, <<"**Search Query:** ", "(No query found)">>)

\* C18 as claimed: the header of the k-th section shows the query that was
\* generated from the k-th template and sent, for every response of the
\* provider.
C18_HeaderShowsQuerySent ==
    \A r \in DOMAIN task :
        task[r].pc = "extracting" =>
            \A k \in QueryIds :
                \E p \in Positions(task[r].summary, "**Search Query:** ") :
                    ShowsAt(task[r].summary, p, k,
                            format(search_queries[k], task[r].domain,
                                   task[r].company_name))

\* C19: the stages of a company's pipeline are ordered and counted: a company
\* issues its five search calls together and at most one extraction call, the
\* extraction call only when all five search calls have returned, and it
\* normalises contacts only when the extraction call has returned; when run has
\* ended, every input company has issued exactly five search calls and exactly
\* one extraction call.
C19_StagesOrderedAndCounted ==
    /\ \A r \in DOMAIN task :
          /\ task[r].n_search \in {0, 5}
          /\ task[r].n_llm \in {0, 1}
          /\ task[r].n_llm = 1 => task[r].n_search = 5
          /\ task[r].pc = "extracting" =>
                \A k \in QueryIds : task[r].slots[k].state = "done"
          /\ task[r].pc = "searching" => task[r].n_llm = 0
          /\ task[r].reply # NoReply => task[r].n_llm = 1
          /\ (task[r].pc = "returned" \/ task[r].contacts # <<>>) =>
                task[r].reply # NoReply
    /\ pc \in {"done", "raised"} =>
          \A r \in DOMAIN task : task[r].n_search = 5 /\ task[r].n_llm = 1

\* a hit with all of title, link and snippet
CompleteHit(hit) == hit.t = "obj" /\ {"title", "link", "snippet"} \subseteq DOMAIN hit.o

\* the hit as the summary shows it
Rendered(hit) ==
    <<"- ">> \o hit.o["title"].s \o <<"\n  ">> \o hit.o["link"].s \o <<"\n  ">>
        \o hit.o["snippet"].s

\* the complete hits among the first 4 positions of a hit list, in their order
ShownHits(hits) == SelectSeq(SubSeq(hits, 1, Min(4, Len(hits))), CompleteHit)

\* the hit list of the result a search call gave
HitsOf(slot) == slot.result.value.o["organic"].a

\* C20: the hits a query block renders are exactly the hits among the first 4
\* positions of the provider's hit list that have all of title, link and
\* snippet, in their order: a hit without one of the fields leaves no trace,
\* and no hit of position 5 or later is rendered.
C20_FirstFourComplete ==
    \A r \in DOMAIN task :
        task[r].pc = "extracting" =>
            task[r].summary =
                Join(<<"\n\n\n">>,
                     [k \in QueryIds |->
                         <<"**Search Query:** ">> \o task[r].queries[k] \o <<"\n\n">>
                             \o Join(<<"\n---\n">>,
                                     [x \in DOMAIN ShownHits(HitsOf(task[r].slots[k])) |->
                                         Rendered(ShownHits(HitsOf(task[r].slots[k]))[x])])])

\* a company awaits its extraction; the hit list of its second search has 5
\* hits, the second without link and the others complete: the summary shows
\* the first, third and fourth and not the fifth
C20_Witness ==
    \E r \in DOMAIN task :
        /\ task[r].pc = "extracting"
        /\ Len(HitsOf(task[r].slots[2])) = 5
        /\ \A k \in {1, 3, 4, 5} : HitsOf(task[r].slots[2])[k] = Hit(HitNames[k])
        /\ "link" \notin DOMAIN HitsOf(task[r].slots[2])[2].o
        /\ \A k \in {1, 3, 4} : Contains(task[r].summary, <<"- ", HitNames[k]>>)
        /\ \A k \in {2, 5} : ~Contains(task[r].summary, <<"- ", HitNames[k]>>)

\* a company's pipeline awaits a network call: a search or its extraction
AwaitsCall(r) ==
    \/ task[r].pc = "searching" /\ \E q \in QueryIds : task[r].slots[q].state = "pending"
    \/ task[r].pc = "extracting"

\* C21: when every call eventually returns, run eventually returns with every
\* chunk processed: all the chunks issued and the pipeline of every input row
\* returned; and as long as a call has not returned, its chunk is not complete
\* and no later chunk has started.
C21_RunCompletes ==
    /\ <>(/\ pc = "done"
          /\ Len(chunks) = (Len(df) + batch_size - 1) \div batch_size
          /\ \A r \in DOMAIN task : task[r].pc = "returned")
    /\ [](\A r \in DOMAIN task :
              AwaitsCall(r) =>
                  /\ pc = "gather"
                  /\ ~gather_done(batch)
                  /\ \A x \in DOMAIN task : task[x].chunk <= task[r].chunk)

====
